---------------------------- MODULE Spec2Model ----------------------------
(***************************************************************************)
(* Model of scarlet_extensions.initialization: the source initializer      *)
(* (source.py: hasEdgeFlux, initAllSources, initSource) and the catalog    *)
(* builder (detection.py: makeCatalog), and of the record keeping of       *)
(* scarlet_extensions.testing (api.py: deblend_and_measure,                *)
(* check_data_existence, save_branch).                                     *)
(*                                                                         *)
(* Floating point values are the tags "nan", "inf", "neg" (-1), "zero"     *)
(* (0) and "pos" (+1), compared as IEEE-754 / numpy compares them.         *)
(* A rendered band image is a record [h, w, lit]: lit is the set of        *)
(* 0-based <<row, col>> pixels whose value is > 0.                         *)
(***************************************************************************)
EXTENDS Integers, Sequences, FiniteSets, TLC

VARIABLES
    args,           \* arguments of initAllSources (the options of the run)
    numCenters,     \* len(centers)
    k,              \* loop index of initAllSources
    sources,        \* initAllSources: list of initialized sources; the list
                    \* holds references, each source is named by the index
                    \* of the center it was built for
    skipped,        \* initAllSources: list of skipped indices
    returned,       \* history: per center, did initSource return a source
                    \* ("source") or None ("None")
    pc,             \* position in initAllSources / initSource
    maxComponents,  \* initSource parameter (local, decremented)
    shifting,       \* initSource parameter
    downgrade,      \* initSource parameter
    fallback,       \* initSource parameter
    minGradient,    \* initSource parameter
    source,         \* initSource local `source`
    result,         \* the value initSource returned, until it is filed
    attempts,       \* history: constructions attempted in this top-level call
    rebuilds,       \* history: recursive re-initializations in this call
    edgeDistance,   \* initSource parameter
    error,          \* the exception that left initAllSources, or "none"
    heDistance,     \* hasEdgeFlux called on its own: edgeDistance argument
    heResult,       \* hasEdgeFlux called on its own: its outcome
    heap,           \* makeCatalog: the arrays in memory, by address
    before,         \* history: the input arrays as they were at the call
    datas,          \* makeCatalog argument: an ndarray or a (lr, hr) pair
    wave,           \* makeCatalog argument
    lvl,            \* makeCatalog argument
    local,          \* makeCatalog: its local names, each bound to an address
    out,            \* makeCatalog: the returned (catalog, bg_rms)
    branchFile,     \* api: the "branches" list stored in branches.json
    saved,          \* api: the record files data/<set_id>/<branch>.npz on
                    \* disk, each as the pair <<set_id, branch>>
    apiCall         \* api: the last call made and how it ended

vars == <<args, numCenters, k, sources, skipped, returned, pc, maxComponents,
          shifting, downgrade, fallback, minGradient, edgeDistance, source,
          result,
          attempts, rebuilds, error, heDistance, heResult, heap, before, datas, wave,
          lvl, local, out, branchFile, saved, apiCall>>

-----------------------------------------------------------------------------
(* Bounds of the model *)

MaxComponentsBound == 2     \* largest maxComponents passed by a caller
MaxCenters == 2             \* largest number of centers
MaxEdgeDistance == 2        \* largest edgeDistance passed to initSource
ImageSide == 5              \* side of a rendered image in pixels
MaxFlux == 2                \* largest pixel value of an input image cube
MaxDistance == 3            \* largest edgeDistance passed to hasEdgeFlux alone

Bands == {1, 2}              \* spectral bands of the frame

-----------------------------------------------------------------------------
(* numpy predicates on float tags *)

IsNan(v) == v = "nan"
IsFinite(v) == v \notin {"nan", "inf"}
Gt0(v) == v \in {"pos", "inf"}
Le0(v) == v \in {"neg", "zero"}
Val(v) == IF v = "pos" THEN 1 ELSE IF v = "neg" THEN -1 ELSE 0

RECURSIVE SumVal(_)
SumVal(s) == IF s = <<>> THEN 0 ELSE Val(Head(s)) + SumVal(Tail(s))

\* np.sum(morph) == 0 : a non-finite entry makes the sum nan or inf
SumIsZero(morph) ==
    /\ \A p \in DOMAIN morph : IsFinite(morph[p])
    /\ SumVal(morph) = 0

Min(S) == CHOOSE x \in S : \A y \in S : x <= y

-----------------------------------------------------------------------------
(* Values *)

None == [cls |-> "None"]

NotNone(x) == x.cls # "None"

\* edgeDistance: None or an integer
DistNone == [none |-> TRUE, val |-> 0]
Dist(d) == [none |-> FALSE, val |-> d]

Image(lit) == [h |-> ImageSide, w |-> ImageSide, lit |-> lit]

Comp(sed, morph, box) == [sed |-> sed, morph |-> morph, box |-> box]

\* a constructed model: cube is get_model(), one image per band
Model(cls, comps, cube, shift) ==
    [cls |-> cls, components |-> comps, cube |-> cube,
     shifting |-> shift, isEdge |-> "unset"]

-----------------------------------------------------------------------------
(* hasEdgeFlux, source.py lines 10-51 *)

\* numpy indexing along an axis of length n with a possibly negative index:
\* the 0-based position, or -1 for an IndexError
PyIndex(i, n) ==
    LET j == IF i < 0 THEN i + n ELSE i
    IN  IF j >= 0 /\ j < n THEN j ELSE -1

\* np.any(model[i] > 0) for axis = 1, np.any(model[:, i] > 0) for axis = 2
AnyLit(model, axis, j) == \E p \in model.lit : p[axis] = j

\* the four operands of the `or` on lines 45-48, in evaluation order
EdgeTerms(edge) ==
    << <<1, edge - 1>>, <<1, 0 - edge>>, <<2, edge - 1>>, <<2, 0 - edge>> >>

RECURSIVE OrChain(_, _)
OrChain(model, terms) ==
    IF terms = <<>> THEN "False"
    ELSE LET axis == Head(terms)[1]
             n == IF axis = 1 THEN model.h ELSE model.w
             j == PyIndex(Head(terms)[2], n)
         IN  IF j = -1 THEN "IndexError"
             ELSE IF AnyLit(model, axis, j) THEN "True"
             ELSE OrChain(model, Tail(terms))

\* the loop `for edge in range(edgeDistance)` of lines 43-51, from `edge` on
RECURSIVE EdgeLoop(_, _, _)
EdgeLoop(model, edge, d) ==
    IF edge >= d THEN "False"
    ELSE LET r == OrChain(model, EdgeTerms(edge))
         IN  IF r = "False" THEN EdgeLoop(model, edge + 1, d) ELSE r

\* The spectral vector hasEdgeFlux reads: source.sed when the source has one
\* (ExtendedSource, PointSource), else the first component's
EdgeSed(src) == src.components[1].sed

\* hasEdgeFlux(source, edgeDistance): "True", "False", or the exception raised
hasEdgeFlux(src, dist) ==
    IF dist.none THEN "False"
    ELSE IF ~(dist.val > 0) THEN "AssertionError"
    ELSE LET positive == {b \in Bands : Gt0(EdgeSed(src)[b])}
         IN  IF positive = {} THEN "ValueError"
             ELSE EdgeLoop(src.cube[Min(positive)], 0, dist.val)

-----------------------------------------------------------------------------
(* What the scarlet constructors can hand back.  Each constructor either    *)
(* raises or returns a model; the sets below vary one property at a time    *)
(* around a well-formed model, plus the combinations the branches of        *)
(* initSource distinguish.                                                  *)

Mid == ImageSide \div 2
ImgInterior == Image({<<Mid, Mid>>})
ImgBorder == Image({<<0, Mid>>})
CubeInterior == <<ImgInterior, ImgInterior>>
CubeBorder == <<ImgBorder, ImgBorder>>
CubeMixed == <<ImgInterior, ImgBorder>>    \* border flux in band 2 only

GoodSed == <<"pos", "pos">>
GoodMorph == <<"pos", "pos">>
BigBox == <<17, 8>>
MidBox == <<16, 8>>
SmallBox == <<8, 8>>
OtherSeds == {<<"zero", "pos">>, <<"neg", "pos">>, <<"inf", "pos">>,
              <<"nan", "pos">>, <<"zero", "zero">>, <<"neg", "zero">>}
OtherMorphs == {<<"zero", "zero">>, <<"pos", "neg">>, <<"nan", "pos">>}
GoodComp == Comp(GoodSed, GoodMorph, BigBox)

\* one component, one property varied
CompVariants ==
    {GoodComp}
    \cup {Comp(s, GoodMorph, BigBox) : s \in OtherSeds}
    \cup {Comp(GoodSed, m, BigBox) : m \in OtherMorphs}

\* MultiComponentSource(frame, center, observation, ..., shifting=shifting)
MultiResults(shift) ==
    {Model("Multi", <<c, GoodComp>>, CubeInterior, shift) : c \in CompVariants}
    \cup {Model("Multi", <<GoodComp, Comp(<<"nan", "pos">>, GoodMorph, BigBox)>>,
                 CubeInterior, shift)}
    \cup {Model("Multi", <<Comp(GoodSed, GoodMorph, b[1]),
                           Comp(GoodSed, GoodMorph, b[2])>>, cube, shift) :
             b \in {<<SmallBox, SmallBox>>, <<SmallBox, MidBox>>,
                    <<SmallBox, BigBox>>},
             cube \in {CubeInterior, CubeBorder}}
    \cup {Model("Multi", <<GoodComp, GoodComp>>, cube, shift) :
             cube \in {CubeBorder, CubeMixed}}
    \cup {Model("Multi", <<Comp(<<"zero", "pos">>, GoodMorph, BigBox), GoodComp>>,
                 CubeMixed, shift)}

\* ExtendedSource(frame, center, observation, ..., shifting=shifting)
ExtendedResults(shift) ==
    {Model("Extended", <<c>>, CubeInterior, shift) : c \in CompVariants}
    \cup {Model("Extended", <<Comp(GoodSed, GoodMorph, b)>>, cube, shift) :
             b \in {MidBox, BigBox}, cube \in {CubeInterior, CubeBorder}}
    \cup {Model("Extended", <<GoodComp>>, CubeMixed, shift),
          Model("Extended", <<Comp(<<"zero", "pos">>, GoodMorph, BigBox)>>,
                CubeMixed, shift)}

\* PointSource(frame, center, observation): no shifting argument.  The
\* constructor raises when the center has no positive flux in any band
\* (docstring of initSource, lines 110-113), so a returned point source has
\* a band with positive sed; nothing else about it is checked by anyone.
PointResults ==
    {Model("Point", <<Comp(s, GoodMorph, SmallBox)>>, cube, FALSE) :
        s \in {GoodSed, <<"neg", "pos">>, <<"nan", "pos">>, <<"inf", "pos">>},
        cube \in {CubeInterior}}
    \cup {Model("Point", <<Comp(GoodSed, m, SmallBox)>>, cube, FALSE) :
        m \in {GoodMorph, <<"nan", "pos">>},
        cube \in {CubeInterior, CubeBorder}}

-----------------------------------------------------------------------------
(* initSource, source.py lines 93-235 *)

Unbound == [cls |-> "Unbound"]      \* the local `source` before assignment
Raises == [cls |-> "raise"]         \* a constructor call that raises

DefaultDowngrade == TRUE            \* line 96
DefaultFallback == TRUE             \* line 96
DefaultMinGradient == 0             \* line 96

\* variant of MultiInvalid that forgets the morphology test of line 167
MultiInvalidNoMorph(src) ==
    LET C == {src.components[i] : i \in DOMAIN src.components}
    IN  \/ \E c \in C : \E b \in Bands : IsNan(c.sed[b])
        \/ \E c \in C : \A b \in Bands : Le0(c.sed[b])

\* lines 165-167: the validity check on a MultiComponentSource
MultiInvalid(src) ==
    LET C == {src.components[i] : i \in DOMAIN src.components}
    IN  \/ \E c \in C : \E b \in Bands : IsNan(c.sed[b])
        \/ \E c \in C : \A b \in Bands : Le0(c.sed[b])
        \/ \E c \in C : \E p \in DOMAIN c.morph : ~IsFinite(c.morph[p])

\* line 195: the validity check on an ExtendedSource
ExtendedInvalid(src) ==
    LET c == src.components[1]
    IN  \/ \E b \in Bands : IsNan(c.sed[b])
        \/ \A b \in Bands : Le0(c.sed[b])
        \/ SumIsZero(c.morph)

\* np.all over the components of np.all(bbox.shape[1:] <= n)
AllBoxesWithin(src, n) ==
    \A i \in DOMAIN src.components :
        \A j \in {1, 2} : src.components[i].box[j] <= n

\* where control goes, by the tests on lines 161, 190 and 212
AfterSingle(mc) == IF mc = 0 THEN "point" ELSE "edge"
AfterWhile(mc) == IF mc = 1 THEN "single" ELSE AfterSingle(mc)
WhileTest(mc) == IF mc > 1 THEN "multi" ELSE AfterWhile(mc)

\* lines 188 and 210: maxComponents -= 1
Decrement(mc) == mc - 1

Step(src, mc, p, err, res) ==
    [source |-> src, maxComponents |-> mc, pc |-> p, error |-> err, res |-> res]

\* variant of MultiExcept that re-raises whatever `fallback` says
MultiExceptNoFallback(src, mc, fb, kind, res) ==
    Step(src, mc, "raised", kind, res)

\* variant of MultiExcept that drops straight to the point source
MultiExceptToPoint(src, mc, fb, kind, res) ==
    IF ~fb THEN Step(src, mc, "raised", kind, res)
    ELSE Step(src, 0, WhileTest(0), "none", res)

\* lines 183-188: the except clause of the while loop
MultiExcept(src, mc, fb, kind, res) ==
    IF ~fb THEN Step(src, mc, "raised", kind, res)
    ELSE Step(src, Decrement(mc), WhileTest(Decrement(mc)), "none", res)

\* lines 205-210: the except clause of the single-component attempt
SingleExcept(src, mc, fb, kind, res) ==
    IF ~fb THEN Step(src, mc, "raised", kind, res)
    ELSE Step(src, Decrement(mc), AfterSingle(Decrement(mc)), "none", res)

\* variant of Downgraded that keeps the accepted model: the count is lowered
\* but no further construction is made in this pass
DowngradedKeep(r, mc, p) == Step(r, mc, "edge", "none", "ok")

\* lines 172-178 and 200-202: maxComponents is set to the lower count mc and
\* control leaves the try block for the test p on that count
Downgraded(r, mc, p) == Step(r, mc, p, "none", "ok")

\* lines 162-188: one iteration of the while loop; r is what the constructor
\* did, old the value of `source` before it
MultiStep(r, old, mc, dg, fb, ed) ==
    IF r.cls = "raise" THEN MultiExcept(old, mc, fb, "SourceInitError", "raised")
    ELSE IF MultiInvalid(r) THEN MultiExcept(r, mc, fb, "ValueError", "invalid")
    ELSE IF dg /\ AllBoxesWithin(r, 8) THEN Downgraded(r, 0, AfterWhile(0))
    ELSE IF dg /\ AllBoxesWithin(r, 16) THEN Downgraded(r, 1, AfterWhile(1))
    ELSE LET e == hasEdgeFlux(r, ed)
         IN  IF e = "True"
                 THEN Step([r EXCEPT !.shifting = TRUE], mc, AfterWhile(mc), "none", "ok")
             ELSE IF e = "False" THEN Step(r, mc, AfterWhile(mc), "none", "ok")
             ELSE MultiExcept(r, mc, fb, e, "edgeError")

\* lines 190-210: the single-component attempt
SingleStep(r, old, mc, dg, fb, ed) ==
    IF r.cls = "raise" THEN SingleExcept(old, mc, fb, "SourceInitError", "raised")
    ELSE IF ExtendedInvalid(r) THEN SingleExcept(r, mc, fb, "ValueError", "invalid")
    ELSE IF dg /\ AllBoxesWithin(r, 16) THEN Downgraded(r, 0, AfterSingle(0))
    ELSE LET e == hasEdgeFlux(r, ed)
         IN  IF e = "True"
                 THEN Step([r EXCEPT !.shifting = TRUE], mc, AfterSingle(mc), "none", "ok")
             ELSE IF e = "False" THEN Step(r, mc, AfterSingle(mc), "none", "ok")
             ELSE SingleExcept(r, mc, fb, e, "edgeError")

\* lines 212-218: the point-source attempt; "return" stands for `return None`
PointStep(r, old, mc) ==
    IF r.cls = "raise" THEN Step(old, mc, "return", "none", "raised")
    ELSE Step(r, mc, "edge", "none", "ok")

\* variant of Reinitialize that does not look at `shifting`
ReinitializeAlways(src, shift) == src.cls # "Point"

\* line 227: is the accepted model re-initialized with shifting=True?
Reinitialize(src, shift) == src.cls # "Point" /\ ~shift

\* variant of RebuildCount that passes the caller's original maxComponents
RebuildCountOriginal(mc) == args.maxComponents

\* the maxComponents argument of the recursive call, line 229
RebuildCount(mc) == mc

\* history record of one construction: the count it was made at, the class,
\* the pass (0: the call itself, 1: the re-initialization), how it ended,
\* the value of maxComponents it left, and the options it was made under
Attempt(mc, cls, pass, res, next) ==
    [count |-> mc, cls |-> cls, pass |-> pass, res |-> res, next |-> next,
     shifting |-> shifting, downgrade |-> downgrade, fallback |-> fallback,
     minGradient |-> minGradient, edgeDistance |-> edgeDistance]

frame == <<maxComponents, shifting, downgrade, fallback, minGradient,
           edgeDistance>>
batch == <<args, numCenters, k, sources, skipped>>
edgeAlone == <<heDistance, heResult>>
catalogVars == <<heap, before, datas, wave, lvl, local, out>>
apiVars == <<branchFile, saved, apiCall>>
alone == <<edgeAlone, catalogVars, apiVars>>

TryMulti ==
    /\ pc = "multi"
    /\ \E r \in {Raises} \cup MultiResults(shifting) :
         LET st == MultiStep(r, source, maxComponents, downgrade, fallback,
                             edgeDistance)
         IN  /\ source' = st.source
             /\ maxComponents' = st.maxComponents
             /\ pc' = st.pc
             /\ error' = st.error
             /\ attempts' = Append(attempts,
                    Attempt(maxComponents, "Multi", rebuilds, st.res,
                            st.maxComponents))
    /\ UNCHANGED <<batch, returned, shifting, downgrade, fallback,
                   minGradient, edgeDistance, result, rebuilds, alone>>

TrySingle ==
    /\ pc = "single"
    /\ \E r \in {Raises} \cup ExtendedResults(shifting) :
         LET st == SingleStep(r, source, maxComponents, downgrade, fallback,
                              edgeDistance)
         IN  /\ source' = st.source
             /\ maxComponents' = st.maxComponents
             /\ pc' = st.pc
             /\ error' = st.error
             /\ attempts' = Append(attempts,
                    Attempt(maxComponents, "Extended", rebuilds, st.res,
                            st.maxComponents))
    /\ UNCHANGED <<batch, returned, shifting, downgrade, fallback,
                   minGradient, edgeDistance, result, rebuilds, alone>>

TryPoint ==
    /\ pc = "point"
    /\ \E r \in {Raises} \cup PointResults :
         LET st == PointStep(r, source, maxComponents)
         IN  /\ source' = st.source
             /\ pc' = st.pc
             /\ result' = IF st.pc = "return" THEN None ELSE result
             /\ attempts' = Append(attempts,
                    Attempt(maxComponents, "Point", rebuilds, st.res,
                            st.maxComponents))
             /\ returned' = IF st.pc = "return" THEN Append(returned, "None")
                                                ELSE returned
    /\ UNCHANGED <<batch, frame, rebuilds, error, alone>>

\* lines 220-235 when hasEdgeFlux raises: nothing catches it
EdgeRaise ==
    /\ pc = "edge"
    /\ hasEdgeFlux(source, edgeDistance) \notin {"True", "False"}
    /\ pc' = "raised"
    /\ error' = hasEdgeFlux(source, edgeDistance)
    /\ UNCHANGED <<batch, returned, frame, source, result, attempts,
                   rebuilds, alone>>

\* lines 227-230: return initSource(..., maxComponents, edgeDistance,
\* shifting=True); downgrade, fallback and minGradient take their defaults
EdgeRebuild ==
    /\ pc = "edge"
    /\ hasEdgeFlux(source, edgeDistance) = "True"
    /\ Reinitialize(source, shifting)
    /\ maxComponents' = RebuildCount(maxComponents)
    /\ shifting' = TRUE
    /\ downgrade' = DefaultDowngrade
    /\ fallback' = DefaultFallback
    /\ minGradient' = DefaultMinGradient
    /\ source' = Unbound
    /\ pc' = WhileTest(RebuildCount(maxComponents))
    /\ rebuilds' = rebuilds + 1
    /\ UNCHANGED <<batch, returned, edgeDistance, result, attempts, error,
                   alone>>

\* variant of EdgeMark without the else branch of lines 233-234
EdgeMarkOnlyTrue(src, e) ==
    IF e = "True" THEN [src EXCEPT !.isEdge = "True"] ELSE src

\* lines 231-234: source.isEdge = True, else source.isEdge = False
EdgeMark(src, e) == [src EXCEPT !.isEdge = e]

\* lines 220-235 otherwise: set isEdge and return source
EdgeReturn ==
    /\ pc = "edge"
    /\ LET e == hasEdgeFlux(source, edgeDistance)
       IN  /\ e \in {"True", "False"}
           /\ e = "True" => ~Reinitialize(source, shifting)
           /\ source' = EdgeMark(source, e)
           /\ result' = source'
    /\ returned' = Append(returned, "source")
    /\ pc' = "return"
    /\ UNCHANGED <<batch, frame, attempts, rebuilds, error, alone>>

-----------------------------------------------------------------------------
(* initAllSources, source.py lines 54-90 *)

\* variant of SkippedIndex that records 1-based positions
SkippedIndexOneBased(i) == i + 1

\* line 89: skipped.append(k)
SkippedIndex(i) == i

\* lines 80-85: the next center, initSource called with the run's options
CallInitSource ==
    /\ pc = "loop"
    /\ k < numCenters
    /\ maxComponents' = args.maxComponents
    /\ shifting' = args.shifting
    /\ downgrade' = args.downgrade
    /\ fallback' = args.fallback
    /\ minGradient' = args.minGradient
    /\ edgeDistance' = args.edgeDistance
    /\ pc' = WhileTest(args.maxComponents)
    /\ UNCHANGED <<batch, returned, source, result, attempts, rebuilds, error,
                   alone>>

\* lines 86-89: file the result of initSource under sources or skipped; the
\* frame of the finished call is gone
Collect ==
    /\ pc = "return"
    /\ IF NotNone(result)
         THEN /\ sources' = Append(sources, k)
              /\ skipped' = skipped
         ELSE /\ skipped' = Append(skipped, SkippedIndex(k))
              /\ sources' = sources
    /\ k' = k + 1
    /\ pc' = "loop"
    /\ source' = Unbound
    /\ result' = Unbound
    /\ attempts' = <<>>
    /\ rebuilds' = 0
    /\ maxComponents' = args.maxComponents
    /\ shifting' = args.shifting
    /\ downgrade' = args.downgrade
    /\ fallback' = args.fallback
    /\ minGradient' = args.minGradient
    /\ UNCHANGED <<args, numCenters, returned, edgeDistance, error, alone>>

\* line 90: return sources, skipped
ReturnAll ==
    /\ pc = "loop"
    /\ k = numCenters
    /\ pc' = "done"
    /\ UNCHANGED <<batch, returned, frame, source, result, attempts,
                   rebuilds, error, alone>>

-----------------------------------------------------------------------------
(* The runs: initAllSources on 0..MaxCenters centers with every option *)

\* minGradient: the default and a value a caller chose
MinGradients == {DefaultMinGradient, 1}

EdgeDistances == {DistNone} \cup {Dist(d) : d \in 0..MaxEdgeDistance}

Options ==
    [maxComponents : 0..MaxComponentsBound, edgeDistance : EdgeDistances,
     shifting : BOOLEAN, downgrade : BOOLEAN, fallback : BOOLEAN,
     minGradient : MinGradients]

\* makeCatalog is not running
NoCatalog ==
    /\ heap = <<>>
    /\ before = <<>>
    /\ datas = [kind |-> "none"]
    /\ wave = FALSE
    /\ lvl = 0
    /\ local = <<>>
    /\ out = <<>>

\* no call of the testing api was made; branches.json holds an empty list
NoApi ==
    /\ branchFile = <<>>
    /\ saved = {}
    /\ apiCall = [fn |-> "none"]

Init ==
    /\ args \in Options
    /\ numCenters \in 0..MaxCenters
    /\ k = 0
    /\ sources = <<>>
    /\ skipped = <<>>
    /\ returned = <<>>
    /\ pc = "loop"
    /\ maxComponents = args.maxComponents
    /\ shifting = args.shifting
    /\ downgrade = args.downgrade
    /\ fallback = args.fallback
    /\ minGradient = args.minGradient
    /\ edgeDistance = args.edgeDistance
    /\ source = Unbound
    /\ result = Unbound
    /\ attempts = <<>>
    /\ rebuilds = 0
    /\ error = "none"
    /\ heDistance = DistNone
    /\ heResult = "idle"
    /\ NoCatalog
    /\ NoApi

Next ==
    \/ CallInitSource
    \/ TryMulti
    \/ TrySingle
    \/ TryPoint
    \/ EdgeRaise
    \/ EdgeRebuild
    \/ EdgeReturn
    \/ Collect
    \/ ReturnAll

Spec == Init /\ [][Next]_vars

\* one call of initSource, with every option
InitCall == Init /\ numCenters = 1

\* A sequential program takes its next step whenever there is one
LiveSpec == InitCall /\ [][Next]_vars /\ WF_vars(Next)

-----------------------------------------------------------------------------
(* Properties of initAllSources and initSource *)

ValidDistance(dist) == dist.none \/ dist.val > 0

InCall == pc \in {"multi", "single", "point", "edge"}

Failed(a) == a.res # "ok"

\* 0-based positions i < n, ascending, whose entry of `returned` is flag
RECURSIVE Positions(_, _)
Positions(n, flag) ==
    IF n = 0 THEN <<>>
    ELSE IF returned[n] = flag THEN Append(Positions(n - 1, flag), n - 1)
    ELSE Positions(n - 1, flag)

\* C1: when initAllSources returns, len(sources) + len(skipped) is the number
\* of centers, skipped lists in ascending order exactly the 0-based positions
\* of the centers for which initSource returned None, and sources holds the
\* other centers' models in input order.
C1_SourcesAndSkipped ==
    pc = "done" =>
        /\ Len(returned) = numCenters
        /\ Len(sources) + Len(skipped) = numCenters
        /\ skipped = Positions(numCenters, "None")
        /\ sources = Positions(numCenters, "source")

C1_Witness ==
    /\ pc = "done"
    /\ numCenters = 2
    /\ returned = <<"source", "None">>
    /\ skipped = <<1>>

\* the validity the spec asks of a returned model: every spectral vector
\* finite, non-negative and not all zero, every morphology finite
SpecValid(m) ==
    \A i \in DOMAIN m.components :
        LET c == m.components[i]
        IN  /\ \A b \in Bands : IsFinite(c.sed[b]) /\ c.sed[b] # "neg"
            /\ \E b \in Bands : c.sed[b] # "zero"
            /\ \A p \in DOMAIN c.morph : IsFinite(c.morph[p])

\* C2 as stated: initSource returns None or a model that is valid in that
\* sense, whatever its class.
C2_ReturnsValidOrNone ==
    pc = "return" /\ NotNone(result) => SpecValid(result)

\* what a returned model of each class is known to satisfy
CheckedValid(m) ==
    \A i \in DOMAIN m.components :
        LET c == m.components[i]
        IN  CASE m.cls = "Multi" ->
                    /\ \A b \in Bands : c.sed[b] # "nan"
                    /\ \E b \in Bands : c.sed[b] \in {"pos", "inf"}
                    /\ \A p \in DOMAIN c.morph : c.morph[p] \notin {"nan", "inf"}
              [] m.cls = "Extended" ->
                    /\ \A b \in Bands : c.sed[b] # "nan"
                    /\ \E b \in Bands : c.sed[b] \in {"pos", "inf"}
                    /\ ~SumIsZero(c.morph)
              [] m.cls = "Point" -> TRUE

\* C2 amended: initSource returns None or a model that passed the check made
\* for its class: Multi - no NaN and some positive entry in every spectral
\* vector, every morphology finite; Extended - no NaN and some positive
\* entry in the spectral vector, morphology not summing to zero; Point -
\* unchecked.
C2_ReturnsCheckedOrNone ==
    pc = "return" /\ NotNone(result) =>
        /\ result.cls \in {"Multi", "Extended", "Point"}
        /\ CheckedValid(result)

C2_Witness ==
    /\ pc = "return"
    /\ result.cls = "Multi"
    /\ result.components[1].sed = <<"neg", "pos">>

Rank(cls) == CASE cls = "Multi" -> 2 [] cls = "Extended" -> 1 [] cls = "Point" -> 0

\* C3: within one call of initSource, re-initialization included, the counts
\* at which a construction is attempted never increase and never exceed the
\* caller's maxComponents; a Multi attempt is made only at a count > 1, an
\* Extended attempt only at 1, a Point attempt only at 0; and within a pass
\* no class is attempted after a less expressive one.
C3_AttemptsDescend ==
    \A i \in DOMAIN attempts :
        LET a == attempts[i]
        IN  /\ a.count <= args.maxComponents
            /\ a.cls = "Multi" => a.count > 1
            /\ a.cls = "Extended" => a.count = 1
            /\ a.cls = "Point" => a.count = 0
            /\ \A j \in DOMAIN attempts :
                  j < i =>
                    /\ attempts[j].count >= a.count
                    /\ attempts[j].pass = a.pass =>
                          Rank(attempts[j].cls) >= Rank(a.cls)

C3_Witness ==
    /\ rebuilds = 1
    /\ Len(attempts) = 4
    /\ attempts[1].cls = "Multi" /\ attempts[2].cls = "Extended"
    /\ attempts[3].cls = "Extended" /\ attempts[4].cls = "Point"

\* C4: every call of initSource ends (it returns or raises), and it
\* re-initializes at most once: edge flux on the rebuilt model triggers no
\* further rebuild.
C4_TerminatesOneRebuild ==
    /\ [](rebuilds <= 1)
    /\ InCall ~> (pc \in {"return", "raised"})

C4_Witness ==
    /\ pc = "return"
    /\ rebuilds = 1
    /\ result.cls = "Extended"
    /\ result.isEdge = "True"

\* C5 as stated: with fallback=False every failed construction ends the call
\* with a raised error; the call goes on to no lower count and returns
\* neither None nor a model after a failure.
C5_NoFallbackRaises ==
    ~args.fallback =>
        \A i \in DOMAIN attempts : Failed(attempts[i]) => pc = "raised"

\* C6: with fallback=True and a valid edgeDistance nothing is raised: a
\* failure at count n > 0 moves the call to count n-1, where the next
\* construction is attempted, a failure of the point source makes the call
\* return None, and initAllSources files that center's index under skipped.
C6_FallbackNeverRaises ==
    args.fallback /\ ValidDistance(args.edgeDistance) =>
        /\ pc # "raised"
        /\ error = "none"
        /\ \A i \in DOMAIN attempts :
              Failed(attempts[i]) =>
                IF attempts[i].count > 0
                  THEN IF i < Len(attempts)
                         THEN attempts[i + 1].count = attempts[i].count - 1
                         ELSE maxComponents = attempts[i].count - 1 /\ InCall
                  ELSE i = Len(attempts) /\ pc = "return" /\ result = None
        /\ (pc = "loop" /\ k > 0 /\ returned[k] = "None") =>
              (skipped # <<>> /\ skipped[Len(skipped)] = k - 1)

C6_Witness ==
    /\ args.fallback /\ ValidDistance(args.edgeDistance)
    /\ pc = "return"
    /\ result = None
    /\ Len(attempts) = 3
    /\ attempts[1].res = "invalid" /\ attempts[2].res = "raised"

\* C7 as stated: with edgeDistance <= 0 the call ends with the raised error;
\* the error causes no decrement and no further construction, and the call
\* returns neither a model nor None.
C7_BadDistanceRaisesAtOnce ==
    ~ValidDistance(args.edgeDistance) =>
        /\ pc # "return"
        /\ \A i \in DOMAIN attempts :
              attempts[i].res = "edgeError" =>
                  i = Len(attempts) /\ pc = "raised"

AllFailed(cls) ==
    \A i \in DOMAIN attempts : attempts[i].cls = cls => Failed(attempts[i])

\* C8: with maxComponents=2, fallback=True (and an edgeDistance that is
\* None or positive), when the multi-component and the single-component
\* constructions fail and the point source can be built, the call returns a
\* point source after exactly the attempts Multi at 2, Extended at 1, Point
\* at 0.
C8_FullFallbackChain ==
    ( /\ args.maxComponents = 2 /\ args.fallback
      /\ ValidDistance(args.edgeDistance)
      /\ pc \in {"return", "raised"}
      /\ AllFailed("Multi") /\ AllFailed("Extended")
      /\ ~(\E i \in DOMAIN attempts :
             attempts[i].cls = "Point" /\ Failed(attempts[i])) )
    =>
    ( /\ pc = "return"
      /\ result.cls = "Point"
      /\ [i \in DOMAIN attempts |-> <<attempts[i].count, attempts[i].cls>>]
            = << <<2, "Multi">>, <<1, "Extended">>, <<0, "Point">> >> )

C8_Witness ==
    /\ args.maxComponents = 2 /\ args.fallback
    /\ pc = "return"
    /\ result.cls = "Point"
    /\ Len(attempts) = 3
    /\ attempts[1].res = "invalid" /\ attempts[2].res = "raised"


-----------------------------------------------------------------------------
(* hasEdgeFlux called on its own: every image with at most two pixels of   *)
(* flux in the band it reads, every edgeDistance up to MaxDistance         *)

Pixels == (0..ImageSide - 1) \X (0..ImageSide - 1)

LitSets == {{}} \cup {{p, q} : p \in Pixels, q \in Pixels}

\* the default options of initAllSources, line 55-57
DefaultOptions ==
    [maxComponents |-> 1, edgeDistance |-> Dist(1), shifting |-> FALSE,
     downgrade |-> TRUE, fallback |-> TRUE,
     minGradient |-> DefaultMinGradient]

InitEdge ==
    /\ \E L \in LitSets, other \in {ImgInterior, ImgBorder},
          sed \in {<<"pos", "pos">>, <<"zero", "pos">>, <<"zero", "zero">>},
          cls \in {"Extended", "Multi"} :
          source = Model(cls,
                         IF cls = "Multi"
                            THEN <<Comp(sed, GoodMorph, BigBox), GoodComp>>
                            ELSE <<Comp(sed, GoodMorph, BigBox)>>,
                         IF Gt0(sed[1]) THEN <<Image(L), other>>
                                        ELSE <<other, Image(L)>>,
                         FALSE)
    /\ heDistance \in {DistNone} \cup {Dist(d) : d \in 0..MaxDistance}
    /\ heResult = "idle"
    /\ pc = "hasEdgeFlux"
    /\ args = DefaultOptions
    /\ numCenters = 0
    /\ k = 0
    /\ sources = <<>>
    /\ skipped = <<>>
    /\ returned = <<>>
    /\ maxComponents = args.maxComponents
    /\ shifting = args.shifting
    /\ downgrade = args.downgrade
    /\ fallback = args.fallback
    /\ minGradient = args.minGradient
    /\ edgeDistance = args.edgeDistance
    /\ result = Unbound
    /\ attempts = <<>>
    /\ rebuilds = 0
    /\ error = "none"
    /\ NoCatalog
    /\ NoApi

CallHasEdgeFlux ==
    /\ pc = "hasEdgeFlux"
    /\ heResult' = hasEdgeFlux(source, heDistance)
    /\ pc' = "hasEdgeFluxDone"
    /\ UNCHANGED <<batch, returned, frame, source, result, attempts, rebuilds,
                   error, heDistance, catalogVars, apiVars>>

NextEdge == CallHasEdgeFlux

SpecEdge == InitEdge /\ [][NextEdge]_vars

\* the image hasEdgeFlux reads: the first band with positive sed
FirstBandImage(src) ==
    src.cube[Min({b \in Bands : Gt0(EdgeSed(src)[b])})]

\* flux within d pixels of one of the four borders
FluxWithin(img, d) ==
    \E p \in img.lit :
        \/ p[1] < d \/ p[1] >= img.h - d
        \/ p[2] < d \/ p[2] >= img.w - d

\* C9 as stated: for every edgeDistance d >= 1, hasEdgeFlux returns True
\* exactly when the model has flux, in the first band with positive sed,
\* within d pixels of one of the four borders, and False otherwise.
C9_EdgeFluxWithinDistance ==
    ( /\ pc = "hasEdgeFluxDone"
      /\ ~heDistance.none /\ heDistance.val >= 1
      /\ \E b \in Bands : Gt0(EdgeSed(source)[b]) )
    =>
    heResult = IF FluxWithin(FirstBandImage(source), heDistance.val)
                 THEN "True" ELSE "False"

-----------------------------------------------------------------------------
(* makeCatalog, detection.py lines 35-96.                                   *)
(*                                                                          *)
(* Arrays live in `heap` under an address; a name of the program is bound   *)
(* to an address, so that an operation either allocates a new array or      *)
(* writes into an existing one, as numpy does.  An image is the sequence of *)
(* its pixels, a cube a sequence of images (one per band).  Real numbers    *)
(* are fixed point: a quotient is held in hundredths.  Bands with zero      *)
(* total flux (a division by zero, nan in numpy) are left out of the        *)
(* inputs.                                                                  *)

CatPixels == {1, 2}

Abs(x) == IF x < 0 THEN 0 - x ELSE x
Max2(x, y) == IF x > y THEN x ELSE y

RECURSIVE SeqSum(_)
SeqSum(q) == IF q = <<>> THEN 0 ELSE Head(q) + SeqSum(Tail(q))

\* np.sum(cube)
CubeSum(cube) == SeqSum([b \in DOMAIN cube |-> SeqSum(cube[b])])

\* cube / np.sum(cube, axis=(1, 2))[:, None, None], lines 55, 64, 66
Normalize(cube) ==
    [b \in DOMAIN cube |->
        [p \in DOMAIN cube[b] |-> (cube[b][p] * 100) \div SeqSum(cube[b])]]

\* np.sum(cube, axis=0), lines 57, 68
SumBands(cube) ==
    [p \in CatPixels |-> SeqSum([b \in DOMAIN cube |-> cube[b][p]])]

\* interpolate(data_lr, data_hr), lines 10-32: every low resolution band
\* resampled on the high resolution grid, the two grids related by their
\* wcs (here an offset in pixels, wrapped around)
Interpolate(lrImages, lrWcs, hrWcs) ==
    [b \in DOMAIN lrImages |->
        [p \in CatPixels |->
            lrImages[b][((p - 1 + lrWcs + 2 - hrWcs) % 2) + 1]]]

\* one smoothing step of the starlet transform
Smooth(img) == [p \in DOMAIN img |-> SeqSum(img) \div Len(img)]

Minus(x, y) == [p \in DOMAIN x |-> x[p] - y[p]]
Plus(x, y) == [p \in DOMAIN x |-> x[p] + y[p]]

\* Starlet(image).coefficients: three wavelet planes and the coarse plane
Starlet(img) ==
    LET c1 == Smooth(img)
        c2 == Smooth(c1)
        c3 == Smooth(c2)
    IN  <<Minus(img, c1), Minus(c1, c2), Minus(c2, c3), c3>>

\* sep.Background(detect).globalrms
GlobalRms(img) ==
    Max2(1, SeqSum([p \in DOMAIN img |-> Abs(img[p] - Smooth(img)[p])])
              \div Len(img))

\* sep.extract(detect, lvl, err=err): the pixels above lvl * err
Extract(img, level, err) == {p \in DOMAIN img : img[p] > level * err}

\* mad_wavelet(cube): per band, the deviation of the first wavelet plane
MadWavelet(cube) ==
    [b \in DOMAIN cube |->
        SeqSum([p \in DOMAIN cube[b] |-> Abs(Starlet(cube[b])[1][p])])
          \div Len(cube[b])]

\* heap with value v at address a (allocated if it was not)
Store(h, a, v) == [x \in DOMAIN h \cup {a} |-> IF x = a THEN v ELSE h[x]]

\* variant of QuotientTarget for `a /= s`: the quotient overwrites a
QuotientInPlace(a, fresh) == a

\* where `a / s` puts its result (lines 55, 64, 66): in a new array
QuotientTarget(a, fresh) == fresh

\* where `a *= s` puts its result (line 69): in a itself
ProductTarget(a, fresh) == a

\* lines 54-57: datas is one cube
CombineCube(h) ==
    LET q == QuotientTarget(datas.images, "hr_images")
        h1 == Store(h, q, Normalize(h[datas.images]))
    IN  [heap |-> Store(h1, "detect_image", SumBands(h1[q])),
         local |-> [hr_images |-> q, detect_image |-> "detect_image"]]

\* lines 58-69: datas is the pair (data_lr, data_hr)
CombinePair(h) ==
    LET lr == datas.lr
        hr == datas.hr
        h1 == Store(h, "interp",
                    Interpolate(h[lr.images], h[lr.wcss], h[hr.wcss]))
        qi == QuotientTarget("interp", "interp_normalized")
        h2 == Store(h1, qi, Normalize(h1["interp"]))
        qh == QuotientTarget(hr.images, "hr_images")
        h3 == Store(h2, qh, Normalize(h2[hr.images]))
        h4 == Store(h3, "detect_image", Plus(SumBands(h3[qi]), SumBands(h3[qh])))
        t == ProductTarget("detect_image", "detect_image_scaled")
        total == CubeSum(h4[hr.images])
        h5 == Store(h4, t, [p \in CatPixels |-> h4["detect_image"][p] * total])
    IN  [heap |-> h5,
         local |-> [interp |-> qi, hr_images |-> qh, detect_image |-> t]]

\* lines 54-69: the detection image
Combine ==
    /\ pc = "makeCatalog"
    /\ LET st == IF datas.kind = "ndarray" THEN CombineCube(heap)
                                           ELSE CombinePair(heap)
       IN  heap' = st.heap /\ local' = st.local
    /\ pc' = "combined"
    /\ UNCHANGED <<batch, returned, frame, source, result, attempts, rebuilds,
                   error, edgeAlone, apiVars, before, datas, wave, lvl, out>>

\* lines 70-84: detect_image of a cube of 2-D images is 2-D, so this is the
\* branch of lines 80-84
Filter ==
    /\ pc = "combined"
    /\ IF wave
         THEN LET h1 == Store(heap, "wave_detect",
                              Starlet(heap[local.detect_image]))
                  w == h1["wave_detect"]
              IN  /\ heap' = Store(h1, "detect", Plus(Plus(w[1], w[2]), w[3]))
                  /\ local' = [x \in DOMAIN local \cup {"wave_detect", "detect"} |->
                                 IF x \in {"wave_detect", "detect"} THEN x
                                 ELSE local[x]]
         ELSE /\ heap' = heap
              /\ local' = [x \in DOMAIN local \cup {"detect"} |->
                             IF x = "detect" THEN local.detect_image
                             ELSE local[x]]
    /\ pc' = "filtered"
    /\ UNCHANGED <<batch, returned, frame, source, result, attempts, rebuilds,
                   error, edgeAlone, apiVars, before, datas, wave, lvl, out>>

\* lines 86-87: background and peak extraction
ExtractPeaks ==
    /\ pc = "filtered"
    /\ LET detect == heap[local.detect]
       IN  heap' = Store(heap, "catalog",
                         Extract(detect, lvl, GlobalRms(detect)))
    /\ pc' = "extracted"
    /\ UNCHANGED <<batch, returned, frame, source, result, attempts, rebuilds,
                   error, edgeAlone, apiVars, before, datas, wave, lvl, local, out>>

\* lines 89-96: the noise of every input and the return
NoiseAndReturn ==
    /\ pc = "extracted"
    /\ out' = [catalog |-> heap["catalog"],
               bg_rms |-> IF datas.kind = "ndarray"
                            THEN MadWavelet(heap[datas.images])
                            ELSE <<MadWavelet(heap[datas.lr.images]),
                                   MadWavelet(heap[datas.hr.images])>>]
    /\ pc' = "catalogDone"
    /\ UNCHANGED <<batch, returned, frame, source, result, attempts, rebuilds,
                   error, edgeAlone, apiVars, heap, before, datas, wave, lvl, local>>

BandImages == {img \in [CatPixels -> 0..MaxFlux] : SeqSum(img) > 0}

\* Data(images, wcss, psfs, channels), line 8: the addresses of its fields
DataLr ==
    [images |-> "lr.images", wcss |-> "lr.wcss", psfs |-> "lr.psfs",
     channels |-> "lr.channels"]
DataHr ==
    [images |-> "hr.images", wcss |-> "hr.wcss", psfs |-> "hr.psfs",
     channels |-> "hr.channels"]

InitCatalog ==
    /\ \/ /\ datas = [kind |-> "ndarray", images |-> "datas"]
          /\ \E cube \in [{1, 2} -> BandImages] : heap = [a \in {"datas"} |-> cube]
       \/ /\ datas = [kind |-> "pair", lr |-> DataLr, hr |-> DataHr]
          /\ \E lrCube \in [{1} -> BandImages], hrCube \in [{1, 2} -> BandImages],
                lrWcs \in {0, 1} :
                heap = [a \in {"lr.images", "lr.wcss", "lr.psfs", "lr.channels",
                               "hr.images", "hr.wcss", "hr.psfs", "hr.channels"} |->
                          CASE a = "lr.images" -> lrCube
                            [] a = "hr.images" -> hrCube
                            [] a = "lr.wcss" -> lrWcs
                            [] a = "hr.wcss" -> 0
                            [] a = "lr.psfs" -> <<"psf_lr">>
                            [] a = "hr.psfs" -> <<"psf_hr", "psf_hr">>
                            [] a = "lr.channels" -> <<"lr_band">>
                            [] a = "hr.channels" -> <<"hr_band_1", "hr_band_2">>]
    /\ before = heap
    /\ wave \in BOOLEAN
    /\ lvl \in {1, 3}
    /\ local = <<>>
    /\ out = <<>>
    /\ pc = "makeCatalog"
    /\ heDistance = DistNone
    /\ heResult = "idle"
    /\ args = DefaultOptions
    /\ numCenters = 0
    /\ k = 0
    /\ sources = <<>>
    /\ skipped = <<>>
    /\ returned = <<>>
    /\ maxComponents = args.maxComponents
    /\ shifting = args.shifting
    /\ downgrade = args.downgrade
    /\ fallback = args.fallback
    /\ minGradient = args.minGradient
    /\ edgeDistance = args.edgeDistance
    /\ source = Unbound
    /\ result = Unbound
    /\ attempts = <<>>
    /\ rebuilds = 0
    /\ error = "none"
    /\ NoApi

NextCatalog ==
    \/ Combine
    \/ Filter
    \/ ExtractPeaks
    \/ NoiseAndReturn

SpecCatalog == InitCatalog /\ [][NextCatalog]_vars

\* C10: after makeCatalog, for the single cube and for the (lr, hr) pair,
\* with and without wavelets, every input array - image cubes, PSFs,
\* coordinate mappings, band labels - is what it was before the call.
C10_InputsUnchanged ==
    pc = "catalogDone" =>
        \A a \in DOMAIN before : a \in DOMAIN heap /\ heap[a] = before[a]

C10_Witness ==
    /\ pc = "catalogDone"
    /\ datas.kind = "pair"
    /\ wave
    /\ out.catalog # {}
    /\ local.detect_image = "detect_image"

-----------------------------------------------------------------------------
(* testing/api.py: the records of the regression harness.                  *)
(* branches.json holds one list of branch names for all sets; the records  *)
(* of a run are written to data/<set_id>/<branch>.npz.                     *)

SetIds == {1, 2, 3}                 \* get_blend_ids: set_id in [1,2,3]
Branches == {"master", "feature"}   \* branch names passed by callers

\* `branch in branches` on a Python list
InList(b, list) == \E i \in 1..Len(list) : list[i] = b

\* get_branches(): the list stored in the branch file
get_branches == branchFile

\* save_branch(branch): the list the branch file holds afterwards
save_branch(branch) ==
    IF ~InList(branch, get_branches)
    THEN Append(get_branches, branch)
    ELSE branchFile

\* check_data_existence(set_id, branch, overwrite): True or the exception
check_data_existence(set_id, branch, overwrite) ==
    IF InList(branch, get_branches) /\ ~overwrite
    THEN "ValueError"
    ELSE "True"

\* how a call of deblend_and_measure ends.  found: the lookup of the blend
\* ids returned; deblended: loading, deblending and measuring raised nothing
RunOutcome(set_id, branch, overwrite, save_records, found, deblended) ==
    IF ~found THEN "Exception"
    ELSE IF save_records
            /\ check_data_existence(set_id, branch, overwrite) = "ValueError"
    THEN "ValueError"
    ELSE IF ~deblended THEN "Exception"
    ELSE "records"

ApiCall(fn, set_id, branch, overwrite, outcome) ==
    [fn |-> fn, set_id |-> set_id, branch |-> branch, overwrite |-> overwrite,
     outcome |-> outcome, branchesBefore |-> branchFile]

\* deblend_and_measure(set_id, branch, overwrite, save_records=...)
DeblendAndMeasure ==
    /\ pc = "api"
    /\ \E set_id \in SetIds, branch \in Branches, overwrite \in BOOLEAN,
          save_records \in BOOLEAN, found \in BOOLEAN, deblended \in BOOLEAN :
        LET outcome == RunOutcome(set_id, branch, overwrite, save_records,
                                  found, deblended)
        IN  /\ apiCall' = ApiCall("deblend_and_measure", set_id, branch,
                                  overwrite, outcome)
            /\ IF outcome = "records" /\ save_records
               THEN /\ saved' = saved \cup {<<set_id, branch>>}
                    /\ branchFile' = save_branch(branch)
               ELSE UNCHANGED <<saved, branchFile>>
    /\ UNCHANGED <<batch, returned, pc, frame, source, result, attempts,
                   rebuilds, error, edgeAlone, catalogVars>>

\* check_data_existence(set_id, branch, overwrite) called on its own
CheckDataExistence ==
    /\ pc = "api"
    /\ \E set_id \in SetIds, branch \in Branches, overwrite \in BOOLEAN :
        apiCall' = ApiCall("check_data_existence", set_id, branch, overwrite,
                           check_data_existence(set_id, branch, overwrite))
    /\ UNCHANGED <<batch, returned, pc, frame, source, result, attempts,
                   rebuilds, error, edgeAlone, catalogVars, branchFile, saved>>

InitApi ==
    /\ pc = "api"
    /\ NoApi
    /\ args = DefaultOptions
    /\ numCenters = 0
    /\ k = 0
    /\ sources = <<>>
    /\ skipped = <<>>
    /\ returned = <<>>
    /\ maxComponents = args.maxComponents
    /\ shifting = args.shifting
    /\ downgrade = args.downgrade
    /\ fallback = args.fallback
    /\ minGradient = args.minGradient
    /\ edgeDistance = args.edgeDistance
    /\ source = Unbound
    /\ result = Unbound
    /\ attempts = <<>>
    /\ rebuilds = 0
    /\ error = "none"
    /\ heDistance = DistNone
    /\ heResult = "idle"
    /\ NoCatalog

NextApi ==
    \/ DeblendAndMeasure
    \/ CheckDataExistence

SpecApi == InitApi /\ [][NextApi]_vars

-----------------------------------------------------------------------------
(* Properties of initSource: the downgrade and the edge re-initialization  *)

\* an accepted multi-component model whose boxes made lines 172-178 lower
\* maxComponents
DowngradedMulti(a) == a.cls = "Multi" /\ a.res = "ok" /\ a.next < a.count

\* C12 as stated: with downgrade=True, when an accepted multi-component
\* model has all its boxes <= 8 (or <= 16) pixels, the downgrade only lowers
\* the count for future attempts, and the pass returns that accepted
\* multi-component model, not a model of a lower class and not None.
C12_DowngradeKeepsModel ==
    pc = "return" =>
        \A i \in DOMAIN attempts :
            DowngradedMulti(attempts[i]) /\ attempts[i].pass = rebuilds =>
                NotNone(result) /\ result.cls = "Multi"

\* C12, amended: with downgrade=True, when an accepted multi-component model
\* has all its boxes <= 8 (or <= 16) pixels, maxComponents becomes 0 (or 1)
\* and the accepted model is discarded: the same pass next constructs a
\* PointSource at 0 (or an ExtendedSource at 1), and the call returns a model
\* of a lower class or None, or raises, but never a multi-component model.
C12_DowngradeReplacesModel ==
    \A i \in DOMAIN attempts :
        DowngradedMulti(attempts[i]) =>
            /\ attempts[i].next \in {0, 1}
            /\ pc \in {"edge", "return", "raised"} => i < Len(attempts)
            /\ i < Len(attempts) =>
                  /\ attempts[i + 1].pass = attempts[i].pass
                  /\ attempts[i + 1].count = attempts[i].next
                  /\ attempts[i + 1].cls =
                        IF attempts[i].next = 0 THEN "Point" ELSE "Extended"
            /\ pc = "edge" => source.cls # "Multi"
            /\ pc = "return" /\ NotNone(result) => result.cls # "Multi"

C12_Witness ==
    /\ pc = "return"
    /\ NotNone(result)
    /\ result.cls = "Extended"
    /\ rebuilds = 0
    /\ Len(attempts) = 2
    /\ DowngradedMulti(attempts[1])
    /\ attempts[1].next = 1

\* the attempt at position i is the first one of the re-initialization
FirstOfRebuild(i) ==
    attempts[i].pass = 1 /\ (i = 1 \/ attempts[i - 1].pass = 0)

\* the first construction of the re-initialization repeats the accepted
\* model's count and class, now with shifting=True
RebuildRepeatsAccepted ==
    \A i \in DOMAIN attempts :
        FirstOfRebuild(i) =>
            /\ i > 1
            /\ attempts[i - 1].res = "ok"
            /\ attempts[i - 1].cls # "Point"
            /\ ~attempts[i - 1].shifting
            /\ attempts[i].count = attempts[i - 1].count
            /\ attempts[i].cls = attempts[i - 1].cls
            /\ attempts[i].shifting

\* the step taken from the edge test of lines 220-235 (edgeDistance None or
\* positive): a re-initialization exactly when the accepted model has edge
\* flux, is no point source and shifting is False; otherwise that model is
\* returned
RebuildDecision ==
    pc = "edge" /\ ValidDistance(edgeDistance) =>
        LET e == hasEdgeFlux(source, edgeDistance)
            accepted == attempts[Len(attempts)]
        IN  /\ e \in {"True", "False"}
            /\ accepted.res = "ok" /\ accepted.cls = source.cls
            /\ IF e = "True" /\ source.cls # "Point" /\ ~shifting
               THEN /\ rebuilds' = rebuilds + 1
                    /\ source' = Unbound
                    /\ shifting'
                    /\ maxComponents' = accepted.count
                    /\ pc' = IF source.cls = "Multi" THEN "multi" ELSE "single"
                    /\ attempts' = attempts
               ELSE /\ rebuilds' = rebuilds
                    /\ pc' = "return"
                    /\ result' = [source EXCEPT !.isEdge = e]
                    /\ attempts' = attempts

\* C13: when the model accepted by the first pass has edge flux, is not a
\* point source and the call had shifting=False, the model is discarded and
\* a rebuild starts whose first construction is at the same count and class
\* with shifting=True; when the accepted model is a point source, or
\* shifting was already True, or there is no edge flux, there is no rebuild
\* and the accepted model itself is returned.
C13_RebuildSameCountShifting ==
    [](RebuildRepeatsAccepted) /\ [][RebuildDecision]_vars

C13_Witness ==
    /\ rebuilds = 1
    /\ Len(attempts) = 2
    /\ FirstOfRebuild(2)
    /\ attempts[2].cls = "Multi"
    /\ attempts[2].res = "ok"
    /\ ~args.shifting

\* C14: every model initSource returns, directly or through the rebuild, has
\* its isEdge flag set to the outcome of hasEdgeFlux(model, edgeDistance) on
\* that model; with edgeDistance=None there is no rebuild and every returned
\* model has isEdge == False.
C14_IsEdgeIsEdgeTest ==
    /\ args.edgeDistance.none => rebuilds = 0
    /\ pc = "return" /\ NotNone(result) =>
          /\ result.isEdge \in {"True", "False"}
          /\ result.isEdge = hasEdgeFlux(result, args.edgeDistance)
          /\ args.edgeDistance.none => result.isEdge = "False"

C14_Witness ==
    /\ pc = "return"
    /\ NotNone(result)
    /\ args.edgeDistance.none
    /\ ~args.shifting
    /\ result.cls = "Extended"
    /\ result.isEdge = "False"
    /\ hasEdgeFlux(result, Dist(1)) = "True"

\* C15: with fallback=True, whatever downgrade is, a call of initSource in
\* which some constructed model passed its validity gate does not return
\* None: neither the downgrade nor the edge rebuild turns a center that had
\* an accepted model into a skipped one.
C15_AcceptedNeverSkipped ==
    args.fallback /\ pc = "return"
        /\ (\E i \in DOMAIN attempts : attempts[i].res = "ok")
    => NotNone(result)

\* C16: the edge rebuild runs with the caller's options except shifting:
\* every construction of the rebuild is made under the downgrade, fallback
\* and minGradient the caller passed, and the caller's edgeDistance.
C16_RebuildKeepsOptions ==
    \A i \in DOMAIN attempts :
        attempts[i].pass >= 1 =>
            /\ attempts[i].downgrade = args.downgrade
            /\ attempts[i].fallback = args.fallback
            /\ attempts[i].minGradient = args.minGradient
            /\ attempts[i].edgeDistance = args.edgeDistance

=============================================================================
